---- MODULE Spec2Model ----
(***************************************************************************)
(* Backtesting core of etna's Pipeline (etna/pipeline/pipeline.py):        *)
(* validation, fold generation, fold execution through a worker pool and   *)
(* assembly of the result tables.                                          *)
(*                                                                         *)
(* Timestamps of the dataset index are represented by their position       *)
(* 0 .. T-1 in the (monotonic, fixed-frequency) index.                     *)
(***************************************************************************)
EXTENDS Integers, Sequences, FiniteSets, TLC

\* ---------------------------------------------------------------- bounds
MaxT == 5
MaxHorizon == 2
MaxFolds == 3
MaxMetrics == 2
MaxJobs == 2
\* the add-constant transform: series length, magnitude of the values, number
\* of transform / inverse_transform calls, and bits of the floating-point
\* significand (a scaled-down float64)
MaxLen == 2
MaxMagnitude == 9
MaxCalls == 2
Precision == 3

\* The worked example of the fold arithmetic: 100 timestamps, horizon 10, 3 folds.
Example == [T |-> 100, horizon |-> 10, n_folds |-> 3]

\* ---------------------------------------------------------------- inputs
VARIABLES
    T,                  \* len(ts.index)
    segLen,             \* segment -> len(ts[:, segment, "target"])
    horizon,            \* self.horizon
    n_folds,            \* argument n_folds
    mode,               \* argument mode (a string)
    metrics,            \* argument metrics (a list of metric objects)
    n_jobs,             \* argument n_jobs
    aggregate_metrics   \* argument aggregate_metrics

\* ----------------------------------------------------------------- state
VARIABLES
    pc,                 \* position of the running call
    error,              \* the exception the call propagated, or NoError
    genState,           \* state of the _generate_folds_datasets generator
    offset,             \* loop variable of the generator
    yielded,            \* the (train, test) pairs the generator has yielded, in order
    running,            \* fold numbers whose _run_fold is executing
    completed,          \* finished tasks in completion order: <<task index, fold record>>
    folds,              \* self._folds
    tables,             \* the returned (metrics_df, forecast_df, fold_info_df), or NoTables
    log,                \* the calls received by tslogger, in order
    heap,               \* the Pipeline objects: reference -> fields that fit() assigns
    local               \* fold number -> the reference held by `pipeline` in its _run_fold

\* ------------------------------------- _OneSegmentAddConstTransform and its df
VARIABLES
    value,              \* self.value
    inplace,            \* self.inplace
    df,                 \* the DataFrame: column name -> series
    original,           \* the series of in_column before any call
    calls               \* the calls made on the transform, in order

transformVars == <<value, inplace, df, original, calls>>

inputs == <<T, segLen, horizon, n_folds, mode, metrics, n_jobs, aggregate_metrics>>
vars == <<T, segLen, horizon, n_folds, mode, metrics, n_jobs, aggregate_metrics,
          pc, error, genState, offset, yielded, running, completed, folds, tables, log,
          heap, local, value, inplace, df, original, calls>>

Segments == {"a", "b"}
SegmentOrder == <<"a", "b">>

NoError == [type |-> "none", check |-> "none", names |-> "none"]
NoTables == [returned |-> FALSE]
None == <<"None">>
NaT == -1

\* ------------------------------------------------------ CrossValidationMode
CrossValidationMode == {"expand", "constant"}

ModeInputs == {"expand", "constant", "Expand", "CONSTANT", "rolling"}

\* str.lower() on the mode strings of the model
Lower(s) ==
    CASE s = "Expand" -> "expand"
      [] s = "CONSTANT" -> "constant"
      [] OTHER -> s

\* CrossValidationMode[mode.lower()]: the member, or KeyError
\* an unknown mode falls back to expand
ModeLookup_M(m) ==
    [ok |-> TRUE, member |-> IF Lower(m) \in CrossValidationMode THEN Lower(m) ELSE "expand"]
ModeLookup(m) ==
    IF Lower(m) \in CrossValidationMode
    THEN [ok |-> TRUE, member |-> Lower(m)]
    ELSE [ok |-> FALSE, member |-> "KeyError"]

constant_history_length(member) ==
    IF member = "expand" THEN 0 ELSE 1

\* ------------------------------------------------------- fold arithmetic
min_timestamp_idx == 0
max_timestamp_idx == T

min_train_idx(off, chl) == min_timestamp_idx + (n_folds - off) * horizon * chl
max_train_idx_M(off) == max_timestamp_idx - horizon * off
max_train_idx(off) == max_timestamp_idx - horizon * off - 1
min_test_idx(off) == max_train_idx(off) + 1
max_test_idx_M(off) == max_train_idx(off) + horizon - 1
max_test_idx(off) == max_train_idx(off) + horizon

\* timestamps[idx] of a pandas index of length T: a negative idx counts from
\* the end, an idx outside -T .. T-1 raises IndexError
InRange(idx) == idx >= -T /\ idx < T
At(idx) == IF idx >= 0 THEN idx ELSE T + idx

\* ts.train_test_split(train_start, train_end, test_start, test_end):
\* label slices of the index, both ends included
Slice(first, last) == {p \in 0 .. T - 1 : first <= p /\ p <= last}

\* the loop body of _generate_folds_datasets for one offset
FoldPair(off, chl) ==
    [min_train_idx |-> min_train_idx(off, chl),
     max_train_idx |-> max_train_idx(off),
     min_test_idx  |-> min_test_idx(off),
     max_test_idx  |-> max_test_idx(off),
     min_train |-> At(min_train_idx(off, chl)),
     max_train |-> At(max_train_idx(off)),
     min_test  |-> At(min_test_idx(off)),
     max_test  |-> At(max_test_idx(off)),
     train |-> Slice(At(min_train_idx(off, chl)), At(max_train_idx(off))),
     test  |-> Slice(At(min_test_idx(off)), At(max_test_idx(off)))]

FoldInRange(off, chl) ==
    /\ InRange(min_train_idx(off, chl))
    /\ InRange(max_train_idx(off))
    /\ InRange(min_test_idx(off))
    /\ InRange(max_test_idx(off))

\* One next() on the generator: the mode lookup runs on the first next(),
\* then range(n_folds, 0, -1) is walked, one yield per next().
GenStep ==
    IF genState = "created" /\ ~ModeLookup(mode).ok
    THEN [state |-> "raised", offset |-> offset, error |-> "KeyError", pair |-> None]
    ELSE LET off == IF genState = "created" THEN n_folds ELSE offset - 1
             chl == constant_history_length(ModeLookup(mode).member)
         IN  IF off < 1
             THEN [state |-> "exhausted", offset |-> offset, error |-> "none", pair |-> None]
             ELSE IF ~FoldInRange(off, chl)
             THEN [state |-> "raised", offset |-> off, error |-> "IndexError", pair |-> None]
             ELSE [state |-> "suspended", offset |-> off, error |-> "none",
                   pair |-> FoldPair(off, chl)]

GenLive == genState \in {"created", "suspended"}

\* ------------------------------------------------------------ validation
\* _validate_backtest_n_folds
NFoldsInvalid_M == n_folds < 0
NFoldsInvalid == n_folds < 1

\* _validate_backtest_dataset
min_required_length == horizon * n_folds
TooShort_M(segment) == segLen[segment] <= min_required_length
TooShort(segment) == segLen[segment] < min_required_length

\* _validate_backtest_metrics
per_segment == "per-segment"
WrongMode(metric) == ~(metric.mode = per_segment)
MetricsEmpty == Len(metrics) = 0
\* the metric at which the loop over the list raises
FirstWrong_M(i) ==
    /\ i \in 1 .. Len(metrics)
    /\ WrongMode(metrics[i])
    /\ \A j \in i + 1 .. Len(metrics) : ~WrongMode(metrics[j])
FirstWrong(i) ==
    /\ i \in 1 .. Len(metrics)
    /\ WrongMode(metrics[i])
    /\ \A j \in 1 .. i - 1 : ~WrongMode(metrics[j])

ValueError(check, names) == [type |-> "ValueError", check |-> check, names |-> names]

\* ------------------------------------------------------- fold execution
IndexMin(S) == IF S = {} THEN NaT ELSE CHOOSE p \in S : \A q \in S : p <= q
IndexMax(S) == IF S = {} THEN NaT ELSE CHOOSE p \in S : \A q \in S : p >= q

\* pipeline.fit(train); pipeline.forecast(): the horizon timestamps that
\* follow the end of the train set
Forecast(train) ==
    IF train = {} THEN {} ELSE (IndexMax(train) + 1) .. (IndexMax(train) + horizon)

\* one metric value for one segment
Score(name, segment, test, forecast) ==
    (Cardinality((test \ forecast) \cup (forecast \ test))
       + (IF test = {} THEN 0 ELSE IndexMin(test))
       + (IF segment = "a" THEN 0 ELSE 1)
       + (IF name = "MAE" THEN 0 ELSE 2)) % 4

MetricNames == {metrics[i].name : i \in 1 .. Len(metrics)}

\* compute_metrics(metrics, y_true=test, y_pred=forecast)
compute_metrics(test, forecast) ==
    [name \in MetricNames |-> [s \in Segments |-> Score(name, s, test, forecast)]]

\* ---- Pipeline objects
\* the reference of self, the pipeline backtest is called on
Template == 0
\* the value of a field that holds no dataset: it is no set of timestamps
NotBound == {NaT}
\* Pipeline.__init__: ts is None, model and transforms are not fitted
Unfit == [ts |-> NotBound, transforms |-> NotBound, model |-> NotBound]
\* Pipeline.fit(ts): binds ts, fits the transforms and the model on it
Fit(pipeline, ts) == [ts |-> ts, transforms |-> ts, model |-> ts]

\* pipeline = self: no copy is made
DeepCopy_M(objects, f) == [ref |-> Template, heap |-> objects]
\* pipeline = deepcopy(self) in the _run_fold of fold f: a new object with the
\* fields of self
DeepCopy(objects, f) ==
    [ref |-> f + 1,
     heap |-> [r \in DOMAIN objects \cup {f + 1} |->
                  IF r = f + 1 THEN objects[Template] ELSE objects[r]]]

\* lines 165-173 on the fitted pipeline: forecast from the pipeline's own ts
\* and model, timeranges of the fold's train and test, metrics against test
FoldRecord(pair, pipeline) ==
    [train_timerange |-> [start |-> IndexMin(pair.train), end |-> IndexMax(pair.train)],
     test_timerange  |-> [start |-> IndexMin(pair.test), end |-> IndexMax(pair.test)],
     forecast |-> Forecast(pipeline.ts),
     metrics  |-> compute_metrics(pair.test, Forecast(pipeline.ts))]

\* the record _run_fold returns for one (train, test) pair
RunFold(pair) ==
    [train_timerange |-> [start |-> IndexMin(pair.train), end |-> IndexMax(pair.train)],
     test_timerange  |-> [start |-> IndexMin(pair.test), end |-> IndexMax(pair.test)],
     forecast |-> Forecast(pair.train),
     metrics  |-> compute_metrics(pair.test, Forecast(pair.train))]

LogEntry(call, job_type, group, by) ==
    [call |-> call, job_type |-> job_type, group |-> group, by |-> by]

\* the calls _run_fold makes to tslogger; `by` tags the _run_fold call
\* (its fold number) that makes the call, Main tags backtest itself
Main == -1
FoldStartLog(f) == <<LogEntry("start_experiment", "crossval", ToString(f), f)>>
\* finish_experiment is not called
FoldEndLog_M(f) == <<LogEntry("log_backtest_run", "", "", f)>>
FoldEndLog(f) ==
    <<LogEntry("log_backtest_run", "", "", f), LogEntry("finish_experiment", "", "", f)>>
SummaryLog ==
    <<LogEntry("start_experiment", "crossval_results", "all", Main),
      LogEntry("log_backtest_metrics", "", "", Main),
      LogEntry("finish_experiment", "", "", Main)>>

\* ------------------------------------------------------------ the pool
\* Parallel(...)(tasks): the list of results, in the order of the tasks
TaskResult(done, i) ==
    (CHOOSE k \in 1 .. Len(done) : done[k][1] = i)
\* the results in the order the workers finished
ParallelResults_M(done) == [i \in 1 .. Len(done) |-> done[i][2]]
ParallelResults(done) ==
    [i \in 1 .. Len(done) |-> done[TaskResult(done, i - 1)][2]]

\* self._folds = {i: fold for i, fold in enumerate(folds)}
Enumerate(results) == [i \in 0 .. Len(results) - 1 |-> results[i + 1]]

\* ------------------------------------------------------------ the tables
RECURSIVE Concat(_)
\* DataFrame.append in a loop over the folds: the frames one after the other
Concat(frames) == IF frames = <<>> THEN <<>> ELSE Head(frames) \o Concat(Tail(frames))

SegmentRank(segment) == CHOOSE k \in 1 .. Len(SegmentOrder) : SegmentOrder[k] = segment

\* order of sort_values(["segment", fold_number])
RowBefore(r1, r2) ==
    \/ SegmentRank(r1.segment) < SegmentRank(r2.segment)
    \/ r1.segment = r2.segment /\ r1.fold_number < r2.fold_number

RECURSIVE Insert(_, _)
Insert(row, sorted) ==
    IF sorted = <<>> THEN <<row>>
    ELSE IF RowBefore(row, Head(sorted)) THEN <<row>> \o sorted
    ELSE <<Head(sorted)>> \o Insert(row, Tail(sorted))

RECURSIVE SortValues(_)
SortValues(rows) ==
    IF rows = <<>> THEN <<>> ELSE Insert(Head(rows), SortValues(Tail(rows)))

RECURSIVE SumOf(_, _)
SumOf(rows, name) ==
    IF rows = <<>> THEN 0 ELSE Head(rows).values[name] + SumOf(Tail(rows), name)

\* the sum over the folds instead of the mean
Mean_M(rows, name) == [sum |-> SumOf(rows, name), count |-> 1]
\* a mean is kept as the exact fraction sum / count
Mean(rows, name) == [sum |-> SumOf(rows, name), count |-> Len(rows)]

\* the rows of one fold: one per segment, tagged with the fold number
FoldMetrics(fs, i) ==
    [k \in 1 .. Len(SegmentOrder) |->
        [segment |-> SegmentOrder[k],
         fold_number |-> i,
         values |-> [name \in DOMAIN fs[i].metrics |-> fs[i].metrics[name][SegmentOrder[k]]]]]

\* groupby("segment").mean().reset_index().drop(fold_number)
GroupMean(rows) ==
    LET present == {k \in 1 .. Len(SegmentOrder) :
                      \E j \in 1 .. Len(rows) : rows[j].segment = SegmentOrder[k]}
        group(seg) == SelectSeq(rows, LAMBDA r : r.segment = seg)
        names == DOMAIN rows[1].values
        nth(j) == CHOOSE k \in present : Cardinality({m \in present : m < k}) = j - 1
    IN  [j \in 1 .. Cardinality(present) |->
            [segment |-> SegmentOrder[nth(j)],
             values |-> [name \in names |-> Mean(group(SegmentOrder[nth(j)]), name)]]]

\* _get_backtest_metrics
GetBacktestMetrics(fs, n, aggregate) ==
    LET metrics_df == SortValues(Concat([k \in 1 .. n |-> FoldMetrics(fs, k - 1)]))
    IN  IF aggregate THEN GroupMean(metrics_df) ELSE metrics_df

\* _get_backtest_forecasts
GetBacktestForecasts(fs, n) ==
    LET rows(i) == <<[fold_number |-> i, forecast |-> fs[i].forecast]>>
    IN  Concat([k \in 1 .. n |-> rows(k - 1)])

\* _get_fold_info
GetFoldInfo(fs, n) ==
    LET rows(i) == <<[train_start_time |-> fs[i].train_timerange.start,
                      train_end_time   |-> fs[i].train_timerange.end,
                      test_start_time  |-> fs[i].test_timerange.start,
                      test_end_time    |-> fs[i].test_timerange.end,
                      fold_number      |-> i]>>
    IN  Concat([k \in 1 .. n |-> rows(k - 1)])

Tables(fs, n, aggregate) ==
    [returned |-> TRUE,
     metrics_df   |-> GetBacktestMetrics(fs, n, aggregate),
     forecast_df  |-> GetBacktestForecasts(fs, n),
     fold_info_df |-> GetFoldInfo(fs, n)]

\* ---------------------------------------------------------------- inputs
MAEp == [name |-> "MAE", mode |-> "per-segment"]
MAEm == [name |-> "MAE", mode |-> "macro"]
MSEm == [name |-> "MSE", mode |-> "macro"]
MSEp == [name |-> "MSE", mode |-> "per-segment"]
MetricPool == {MAEp, MAEm, MSEm}

RECURSIVE ListsUpTo(_, _)
ListsUpTo(S, n) ==
    IF n = 0 THEN {<<>>}
    ELSE LET shorter == ListsUpTo(S, n - 1)
         IN  shorter \cup {Append(l, x) : l \in {m \in shorter : Len(m) = n - 1}, x \in S}

MetricLists == ListsUpTo(MetricPool, MaxMetrics) \cup {<<MAEp, MSEp>>}

\* the segments share the timestamp index; a target series has at most T points
SegLens(t) == {f \in [Segments -> 0 .. t] : \E s \in Segments : f[s] = t}

\* no add-constant transform is involved in the call
NoTransform ==
    /\ value = 0
    /\ inplace = TRUE
    /\ df = <<>>
    /\ original = <<>>
    /\ calls = <<>>

StartState ==
    /\ error = NoError
    /\ genState = "created"
    /\ offset = 0
    /\ yielded = <<>>
    /\ running = {}
    /\ completed = <<>>
    /\ folds = None
    /\ tables = NoTables
    /\ log = <<>>
    /\ heap = [ref \in {Template} |-> Unfit]
    /\ local = <<>>

\* backtest(ts, metrics, n_folds, mode, aggregate_metrics, n_jobs), after _init_backtest
Init ==
    /\ T \in 0 .. MaxT
    /\ segLen \in SegLens(T)
    /\ horizon \in 1 .. MaxHorizon
    /\ n_folds \in -1 .. MaxFolds
    /\ mode \in ModeInputs
    /\ metrics \in MetricLists
    /\ n_jobs \in 1 .. MaxJobs
    /\ aggregate_metrics \in BOOLEAN
    /\ pc = "validate_n_folds"
    /\ StartState
    /\ NoTransform

Raise(e) ==
    /\ pc' = "raised"
    /\ error' = e

\* the dataset check is left out
ValidateNFolds_M ==
    /\ pc = "validate_n_folds"
    /\ IF NFoldsInvalid
       THEN Raise(ValueError("n_folds", "none"))
       ELSE pc' = "validate_metrics" /\ UNCHANGED error
    /\ UNCHANGED <<inputs, transformVars, genState, offset, yielded, running, completed, folds, tables, log, heap, local>>

\* line 250
ValidateNFolds ==
    /\ pc = "validate_n_folds"
    /\ IF NFoldsInvalid
       THEN Raise(ValueError("n_folds", "none"))
       ELSE pc' = "validate_dataset" /\ UNCHANGED error
    /\ UNCHANGED <<inputs, transformVars, genState, offset, yielded, running, completed, folds, tables, log, heap, local>>

\* line 251: the segments are visited in the order of a Python set
ValidateDataset ==
    /\ pc = "validate_dataset"
    /\ IF \E s \in Segments : TooShort(s)
       THEN \E s \in Segments : TooShort(s) /\ Raise(ValueError("dataset", s))
       ELSE pc' = "validate_metrics" /\ UNCHANGED error
    /\ UNCHANGED <<inputs, transformVars, genState, offset, yielded, running, completed, folds, tables, log, heap, local>>

\* line 252
ValidateMetrics ==
    /\ pc = "validate_metrics"
    /\ IF MetricsEmpty
       THEN Raise(ValueError("metrics", "none"))
       ELSE IF \E i \in 1 .. Len(metrics) : FirstWrong(i)
       THEN \E i \in 1 .. Len(metrics) : FirstWrong(i) /\ Raise(ValueError("metrics", metrics[i].name))
       ELSE pc' = "run" /\ UNCHANGED error
    /\ UNCHANGED <<inputs, transformVars, genState, offset, yielded, running, completed, folds, tables, log, heap, local>>

\* lines 253-258: the pool takes the next task from the generator and a free
\* worker starts its _run_fold (line 161)
Dispatch ==
    /\ pc = "run"
    /\ GenLive
    /\ Cardinality(running) < n_jobs
    /\ LET g == GenStep
           f == Len(yielded)
       IN  /\ genState' = g.state
           /\ offset' = g.offset
           /\ IF g.state = "suspended"
              THEN /\ yielded' = Append(yielded, g.pair)
                   /\ running' = running \cup {f}
                   /\ log' = log \o FoldStartLog(f)
                   /\ UNCHANGED <<pc, error>>
              ELSE IF g.state = "raised"
              THEN /\ Raise([type |-> g.error, check |-> "generate", names |-> "none"])
                   /\ UNCHANGED <<yielded, running, log>>
              ELSE UNCHANGED <<pc, error, yielded, running, log>>
    /\ UNCHANGED <<inputs, transformVars, completed, folds, tables, heap, local>>

\* lines 163-164: the fold copies the pipeline and fits the copy on its train set
FoldFit(f) ==
    /\ pc = "run"
    /\ f \in running
    /\ f \notin DOMAIN local
    /\ LET copy == DeepCopy(heap, f)
       IN  /\ heap' = [copy.heap EXCEPT ![copy.ref] = Fit(@, yielded[f + 1].train)]
           /\ local' = [g \in DOMAIN local \cup {f} |-> IF g = f THEN copy.ref ELSE local[g]]
    /\ UNCHANGED <<inputs, transformVars, pc, error, genState, offset, yielded, running, completed,
                   folds, tables, log>>

\* lines 165-178: forecast and score succeed; the record is returned to the pool
FoldFinish(f) ==
    /\ pc = "run"
    /\ f \in running
    /\ f \in DOMAIN local
    /\ running' = running \ {f}
    /\ completed' = Append(completed, <<f, FoldRecord(yielded[f + 1], heap[local[f]])>>)
    /\ log' = log \o FoldEndLog(f)
    /\ UNCHANGED <<inputs, transformVars, pc, error, genState, offset, yielded, folds, tables, heap, local>>

\* the failure is recorded but the fold is reported as done
FoldRaise_M(f) ==
    /\ pc = "run"
    /\ f \in running
    /\ error' = [type |-> "FoldError", check |-> "fold", names |-> ToString(f)]
    /\ running' = running \ {f}
    /\ completed' = Append(completed, <<f, RunFold(yielded[f + 1])>>)
    /\ UNCHANGED <<inputs, transformVars, pc, genState, offset, yielded, folds, tables, log, heap, local>>

\* lines 163-173: fit, forecast or compute_metrics raises; the pool re-raises in backtest
FoldRaise(f) ==
    /\ pc = "run"
    /\ f \in running
    /\ Raise([type |-> "FoldError", check |-> "fold", names |-> ToString(f)])
    /\ UNCHANGED <<inputs, transformVars, genState, offset, yielded, running, completed, folds, tables, log, heap, local>>

\* lines 260-270
Assemble ==
    /\ pc = "run"
    /\ genState = "exhausted"
    /\ running = {}
    /\ folds' = Enumerate(ParallelResults(completed))
    /\ tables' = Tables(folds', Len(completed), aggregate_metrics)
    /\ log' = log \o SummaryLog
    /\ pc' = "done"
    /\ UNCHANGED <<inputs, transformVars, error, genState, offset, yielded, running, completed, heap, local>>

Next ==
    \/ ValidateNFolds
    \/ ValidateDataset
    \/ ValidateMetrics
    \/ Dispatch
    \/ \E f \in running : FoldFit(f)
    \/ \E f \in running : FoldFinish(f)
    \/ \E f \in running : FoldRaise(f)
    \/ Assemble

Spec == Init /\ [][Next]_vars

\* ------------------------------------------ iterating the generator directly
\* for pair in Pipeline._generate_folds_datasets(ts, n_folds, horizon, mode): no
\* validation has run, so T, n_folds and horizon are unrelated
InitGen ==
    /\ \/ /\ T \in 0 .. MaxT
          /\ horizon \in 1 .. MaxHorizon
          /\ n_folds \in -1 .. MaxFolds
       \/ /\ T = Example.T
          /\ horizon = Example.horizon
          /\ n_folds = Example.n_folds
    /\ segLen = [s \in Segments |-> T]
    /\ mode \in ModeInputs
    /\ metrics = <<MAEp>>
    /\ n_jobs = 1
    /\ aggregate_metrics = FALSE
    /\ pc = "generate"
    /\ StartState
    /\ NoTransform

\* one next() of the consumer's for loop (lines 123-151)
GenNext ==
    /\ pc = "generate"
    /\ GenLive
    /\ LET g == GenStep
       IN  /\ genState' = g.state
           /\ offset' = g.offset
           /\ yielded' = IF g.state = "suspended" THEN Append(yielded, g.pair) ELSE yielded
           /\ IF g.state = "raised"
              THEN Raise([type |-> g.error, check |-> "generate", names |-> "none"])
              ELSE /\ pc' = IF g.state = "exhausted" THEN "generated" ELSE pc
                   /\ UNCHANGED error
    /\ UNCHANGED <<inputs, transformVars, running, completed, folds, tables, log, heap, local>>

NextGen == GenNext

SpecGen == InitGen /\ [][NextGen]_vars

\* ---------------------------------------- _OneSegmentAddConstTransform
\* The series are float columns.  A float is modelled as an integer number of
\* units that has at most Precision significant bits; arithmetic rounds the
\* exact result to the nearest such number, ties to even.
RECURSIVE BitLen(_)
BitLen(n) == IF n = 0 THEN 0 ELSE 1 + BitLen(n \div 2)

RECURSIVE Pow2(_)
Pow2(e) == IF e = 0 THEN 1 ELSE 2 * Pow2(e - 1)

RoundNat(n) ==
    LET e == BitLen(n) - Precision
    IN  IF e <= 0 THEN n
        ELSE LET q == n \div Pow2(e)
                 r == n % Pow2(e)
                 half == Pow2(e - 1)
                 up == r > half \/ (r = half /\ q % 2 = 1)
             IN  (IF up THEN q + 1 ELSE q) * Pow2(e)

Round(x) == IF x >= 0 THEN RoundNat(x) ELSE 0 - RoundNat(0 - x)

Floats == {x \in (0 - MaxMagnitude) .. MaxMagnitude : Round(x) = x}

in_column == "target"

\* line 24
out_column ==
    IF inplace THEN in_column ELSE in_column \o "_add_" \o ToString(value)

\* df[column] = series
SetColumn(frame, column, series) ==
    [c \in DOMAIN frame \cup {column} |-> IF c = column THEN series ELSE frame[c]]

\* line 49: df[self.in_column] + self.value
AddValue(series) == [i \in 1 .. Len(series) |-> Round(series[i] + value)]

\* the value is added once more
SubValue_M(series) == [i \in 1 .. Len(series) |-> Round(series[i] + value)]
\* line 66: df[self.out_column] - self.value
SubValue(series) == [i \in 1 .. Len(series) |-> Round(series[i] - value)]

RECURSIVE SeriesUpTo(_, _)
SeriesUpTo(S, n) ==
    IF n = 1 THEN {<<x>> : x \in S}
    ELSE LET shorter == SeriesUpTo(S, n - 1)
         IN  shorter \cup {Append(l, x) : l \in {m \in shorter : Len(m) = n - 1}, x \in S}

\* a transform constructed with (value, in_column, inplace) and a df with in_column
InitAddConst ==
    /\ value \in Floats
    /\ inplace \in BOOLEAN
    /\ original \in SeriesUpTo({x \in Floats : x >= 0}, MaxLen)
    /\ df = [c \in {in_column} |-> original]
    /\ calls = <<>>
    /\ T = 0
    /\ segLen = [s \in Segments |-> 0]
    /\ horizon = 1
    /\ n_folds = 0
    /\ mode = "expand"
    /\ metrics = <<>>
    /\ n_jobs = 1
    /\ aggregate_metrics = FALSE
    /\ pc = "transform"
    /\ StartState

backtestVars ==
    <<inputs, pc, error, genState, offset, yielded, running, completed, folds, tables,
      log, heap, local>>

\* lines 36-50
Transform ==
    /\ pc = "transform"
    /\ Len(calls) < MaxCalls
    /\ df' = SetColumn(df, out_column, AddValue(df[in_column]))
    /\ calls' = Append(calls, "transform")
    /\ UNCHANGED <<backtestVars, value, inplace, original>>

\* lines 52-67
InverseTransform ==
    /\ pc = "transform"
    /\ Len(calls) < MaxCalls
    /\ df' = IF inplace THEN SetColumn(df, in_column, SubValue(df[out_column])) ELSE df
    /\ calls' = Append(calls, "inverse_transform")
    /\ UNCHANGED <<backtestVars, value, inplace, original>>

NextAddConst ==
    \/ Transform
    \/ InverseTransform

SpecAddConst == InitAddConst /\ [][NextAddConst]_vars

\* ================================================================ claims

\* C1: for every n_folds >= 1, horizon and mode, the generator yields exactly
\* n_folds pairs, and in every pair the train's last timestamp is immediately
\* followed by the test's first timestamp and the test spans exactly horizon
\* timestamps.  Stated over the folds that backtest generates after its
\* validation passed.
C1_FoldsContiguous ==
    /\ genState = "exhausted" => Len(yielded) = n_folds
    /\ \A i \in 1 .. Len(yielded) :
          /\ yielded[i].max_train + 1 = yielded[i].min_test
          /\ Cardinality(yielded[i].test) = horizon
          /\ yielded[i].max_test - yielded[i].min_test + 1 = horizon

\* C2: the fold with 0-based index f (offset = n_folds - f) of a dataset of T
\* timestamps has max_train_idx = T - horizon*offset - 1, min_train_idx = 0 in
\* expand mode and f*horizon in constant mode, min_test_idx = max_train_idx + 1,
\* max_test_idx = min_test_idx + horizon - 1; T=100, horizon=10, n_folds=3,
\* expand gives [0,69]/[70,79], [0,79]/[80,89], [0,89]/[90,99].
C2_FoldIndices ==
    /\ \A i \in 1 .. Len(yielded) :
          LET f == i - 1
              y == yielded[i]
          IN  /\ y.max_train_idx = T - horizon * (n_folds - f) - 1
              /\ Lower(mode) = "expand" => y.min_train_idx = 0
              /\ Lower(mode) = "constant" => y.min_train_idx = f * horizon
              /\ y.min_test_idx = y.max_train_idx + 1
              /\ y.max_test_idx = y.min_test_idx + horizon - 1
    /\ (/\ T = 100 /\ horizon = 10 /\ n_folds = 3 /\ Lower(mode) = "expand"
        /\ pc = "generated")
       => /\ Len(yielded) = 3
          /\ \A i \in 1 .. 3 :
                /\ yielded[i].train = 0 .. (59 + 10 * i)
                /\ yielded[i].test = (60 + 10 * i) .. (69 + 10 * i)
                /\ <<yielded[i].min_train, yielded[i].max_train>> = <<0, 59 + 10 * i>>
                /\ <<yielded[i].min_test, yielded[i].max_test>> = <<60 + 10 * i, 69 + 10 * i>>

C2_Witness ==
    /\ pc = "generated"
    /\ T = 100 /\ horizon = 10 /\ n_folds = 3
    /\ mode = "expand"
    /\ Len(yielded) = 3

\* C3: in constant mode every fold's train has the same number of timestamps;
\* in expand mode the number of train timestamps strictly increases with the
\* fold index and every train starts at the dataset's earliest timestamp.
C3_TrainLengths ==
    \A i \in 1 .. Len(yielded) :
        /\ Lower(mode) = "expand" => yielded[i].min_train = 0
        /\ \A j \in (i + 1) .. Len(yielded) :
              /\ Lower(mode) = "constant" =>
                    Cardinality(yielded[i].train) = Cardinality(yielded[j].train)
              /\ Lower(mode) = "expand" =>
                    Cardinality(yielded[i].train) < Cardinality(yielded[j].train)

\* the fold records of the pairs in generation order, from the arguments alone
C4_Expected ==
    [i \in 0 .. n_folds - 1 |->
        RunFold(FoldPair(n_folds - i, constant_history_length(Lower(mode))))]

\* C4: whatever order the workers complete folds in, the result stored under
\* fold index i is the result of the i-th generated pair, and the returned
\* tables are those of the folds taken in generation order: they do not
\* depend on n_jobs.
C4_ParallelismInvisible ==
    pc = "done" =>
        /\ DOMAIN folds = 0 .. n_folds - 1
        /\ \A i \in 0 .. n_folds - 1 : folds[i] = RunFold(yielded[i + 1])
        /\ tables = Tables(C4_Expected, n_folds, aggregate_metrics)

C4_Witness ==
    /\ pc = "done"
    /\ n_jobs > 1
    /\ Len(completed) >= 2
    /\ completed[1][1] # 0
    /\ ~aggregate_metrics

\* the first check, in the order n_folds, dataset, metrics, that the arguments fail
C5_FirstFailing ==
    IF n_folds < 1 THEN "n_folds"
    ELSE IF \E s \in Segments : segLen[s] < horizon * n_folds THEN "dataset"
    ELSE IF metrics = <<>> \/ \E i \in 1 .. Len(metrics) : metrics[i].mode # "per-segment"
    THEN "metrics"
    ELSE "none"

C5_NothingExecuted ==
    /\ genState = "created"
    /\ yielded = <<>>
    /\ running = {}
    /\ completed = <<>>
    /\ folds = None
    /\ tables = NoTables
    /\ log = <<>>

\* C5: the validations run in the order n_folds, series length, metrics; the
\* error reported is that of the first failing check in this order; on a
\* validation failure no fold has been split, fitted, forecast, scored or logged.
C5_ValidationOrder ==
    /\ pc = "validate_dataset" => n_folds >= 1
    /\ pc = "validate_metrics" => C5_FirstFailing \in {"metrics", "none"}
    /\ C5_FirstFailing # "none" =>
          /\ pc \in {"validate_n_folds", "validate_dataset", "validate_metrics", "raised"}
          /\ C5_NothingExecuted
          /\ pc = "raised" => error.check = C5_FirstFailing

C5_Witness ==
    /\ pc = "raised"
    /\ error.check = "dataset"
    /\ metrics = <<>>

\* C6 (as stated): n_folds = 0 or negative raises ConfigurationError, for every
\* dataset and metrics argument.
C6_RaisesConfigurationError ==
    (n_folds < 1 /\ pc # "validate_n_folds") =>
        /\ pc = "raised"
        /\ error.type = "ConfigurationError"

\* C6 (amended): n_folds = 0 or negative raises ValueError from the n_folds
\* check, for every dataset and metrics argument.
C6_RaisesValueError ==
    (n_folds < 1 /\ pc # "validate_n_folds") =>
        /\ pc = "raised"
        /\ error = [type |-> "ValueError", check |-> "n_folds", names |-> "none"]

C6_Witness ==
    /\ pc = "raised"
    /\ n_folds = 0
    /\ error.check = "n_folds"
    /\ metrics = <<MAEp>>
    /\ T > 0

C7_PastDatasetCheck == n_folds >= 1 /\ pc \notin {"validate_n_folds", "validate_dataset"}

C7_Outcome(type) ==
    C7_PastDatasetCheck =>
        /\ (\E s \in Segments : segLen[s] < horizon * n_folds) =>
              /\ pc = "raised"
              /\ error.type = type
              /\ error.check = "dataset"
              /\ error.names \in Segments
              /\ segLen[error.names] < horizon * n_folds
        /\ (\A s \in Segments : segLen[s] >= horizon * n_folds) => error.check # "dataset"

\* C7 (as stated): with n_folds >= 1, a segment with fewer than
\* horizon * n_folds points raises ConfigurationError naming a segment that is
\* too short; if every segment has at least horizon * n_folds points the check
\* raises nothing.
C7_RaisesConfigurationError == C7_Outcome("ConfigurationError")

\* C7 (amended): the same, the error being a ValueError.
C7_RaisesValueError == C7_Outcome("ValueError")

C7_Witness ==
    /\ pc = "raised"
    /\ error.check = "dataset"
    /\ \E s \in Segments : segLen[s] >= horizon * n_folds
    /\ \E s \in Segments : segLen[s] = horizon * n_folds - 1

C8_PastMetricsCheck ==
    /\ n_folds >= 1
    /\ \A s \in Segments : segLen[s] >= horizon * n_folds
    /\ pc \notin {"validate_n_folds", "validate_dataset", "validate_metrics"}

C8_Outcome(type) ==
    C8_PastMetricsCheck =>
        /\ metrics = <<>> =>
              /\ pc = "raised"
              /\ error = [type |-> type, check |-> "metrics", names |-> "none"]
        /\ \A i \in 1 .. Len(metrics) :
              (/\ metrics[i].mode # "per-segment"
               /\ \A j \in 1 .. i - 1 : metrics[j].mode = "per-segment")
              => /\ pc = "raised"
                 /\ error = [type |-> type, check |-> "metrics", names |-> metrics[i].name]
        /\ (/\ metrics # <<>>
            /\ \A i \in 1 .. Len(metrics) : metrics[i].mode = "per-segment")
           => error.check # "metrics"

\* C8 (as stated): with valid n_folds and dataset, an empty metrics list or a
\* list with a metric that is not per-segment raises ConfigurationError (naming
\* the first offending metric in list order); a non-empty list of per-segment
\* metrics passes.
C8_RaisesConfigurationError == C8_Outcome("ConfigurationError")

\* C8 (amended): the same, the error being a ValueError.
C8_RaisesValueError == C8_Outcome("ValueError")

C8_Witness ==
    /\ pc = "raised"
    /\ error.check = "metrics"
    /\ Len(metrics) = 2
    /\ metrics[1].mode # "per-segment" /\ metrics[2].mode # "per-segment"
    /\ metrics[1].name # metrics[2].name

C9_NoFold ==
    /\ yielded = <<>>
    /\ running = {}
    /\ completed = <<>>
    /\ log = <<>>
    /\ pc # "done"
    /\ genState \in {"created", "raised"}

\* C9 (as stated): a mode that is neither 'expand' nor 'constant' makes fold
\* generation fail with ConfigurationError, no pair is yielded and backtest
\* executes no fold.
C9_UnknownModeRejected ==
    mode \notin {"expand", "constant"} =>
        /\ C9_NoFold
        /\ genState = "raised" => (pc = "raised" /\ error.type = "ConfigurationError")

\* C9 (amended): a mode whose lower-cased form is neither 'expand' nor
\* 'constant' makes fold generation fail with KeyError on the first next(), no
\* pair is yielded and backtest executes no fold; modes are matched
\* case-insensitively.
C9_UnknownLowerModeRejected ==
    Lower(mode) \notin {"expand", "constant"} =>
        /\ C9_NoFold
        /\ genState = "raised" => (pc = "raised" /\ error.type = "KeyError")
        /\ pc = "run" => ENABLED Dispatch

C9_Witness ==
    /\ mode = "rolling"
    /\ genState = "raised"
    /\ pc = "raised"

C10_NoSummary ==
    \A k \in 1 .. Len(log) :
        /\ log[k].job_type # "crossval_results"
        /\ log[k].call # "log_backtest_metrics"

\* C10: if fit, forecast or metric computation raises in any fold, backtest
\* fails with that error: no tables are returned, no aggregation is performed
\* and no whole-backtest summary record is emitted, for sequential and parallel
\* execution and any fold position.
C10_FoldFailureAborts ==
    /\ error.type = "FoldError" =>
          /\ pc = "raised"
          /\ tables = NoTables
          /\ folds = None
          /\ C10_NoSummary
    /\ pc = "raised" => ~ENABLED Next

C10_Witness ==
    /\ pc = "raised"
    /\ error.type = "FoldError"
    /\ error.names # "0"
    /\ n_jobs > 1
    /\ completed # <<>>

\* C11: _run_fold fits and forecasts only on a deep copy: after any number of
\* _run_fold calls, in any order or interleaving, the template pipeline's
\* model, transforms and bound dataset are as before the calls, and the fitted
\* state a fold uses was produced only from that fold's own train set.
C11_TemplateUntouched ==
    /\ heap[Template] = [ts |-> {-1}, transforms |-> {-1}, model |-> {-1}]
    /\ \A f \in DOMAIN local :
          /\ local[f] # Template
          /\ \A g \in DOMAIN local : g # f => local[g] # local[f]
          /\ heap[local[f]].ts = yielded[f + 1].train
          /\ heap[local[f]].model = yielded[f + 1].train
          /\ heap[local[f]].transforms = yielded[f + 1].train
    /\ \A k \in 1 .. Len(completed) :
          completed[k][2].forecast = Forecast(yielded[completed[k][1] + 1].train)

\* fold 1 fitted and finished while fold 0, fitted before it, was still running
C11_Witness ==
    /\ Len(completed) >= 1
    /\ completed[1][1] = 1
    /\ 0 \in running
    /\ 0 \in DOMAIN local
    /\ yielded[1].train # yielded[2].train

C12_CallsBy(who) == SelectSeq(log, LAMBDA e : e.by = who)

\* C12: in a backtest that completes with n_folds folds the logger receives
\* exactly one fold record per fold (start_experiment with the fold's number
\* as group, then log_backtest_run, then finish_experiment), sequentially or
\* in parallel, and exactly one whole-backtest summary record
\* (start_experiment 'crossval_results', log_backtest_metrics,
\* finish_experiment) that begins only after every fold's record has finished.
C12_OneRecordPerFold ==
    pc = "done" =>
        /\ Len(log) = 3 * n_folds + 3
        /\ \A k \in 1 .. Len(log) : log[k].by \in (0 .. n_folds - 1) \cup {-1}
        /\ \A f \in 0 .. n_folds - 1 :
              LET mine == C12_CallsBy(f)
              IN  /\ Len(mine) = 3
                  /\ mine[1].call = "start_experiment"
                  /\ mine[1].job_type = "crossval"
                  /\ mine[1].group = ToString(f)
                  /\ mine[2].call = "log_backtest_run"
                  /\ mine[3].call = "finish_experiment"
        /\ LET n == Len(log)
           IN  /\ log[n - 2].call = "start_experiment"
               /\ log[n - 2].job_type = "crossval_results"
               /\ log[n - 2].group = "all"
               /\ log[n - 1].call = "log_backtest_metrics"
               /\ log[n].call = "finish_experiment"
               /\ \A k \in 1 .. n : log[k].by = -1 <=> k >= n - 2

\* a completed parallel backtest in which the records of two folds interleave
C12_Witness ==
    /\ pc = "done"
    /\ n_jobs > 1
    /\ n_folds >= 2
    /\ \E k \in 1 .. Len(log) - 1 :
          /\ log[k].call = "start_experiment"
          /\ log[k + 1].call = "start_experiment"

RECURSIVE C13_FoldSum(_, _, _)
\* the sum over the folds 0 .. k-1 of one metric of one segment
C13_FoldSum(name, segment, k) ==
    IF k = 0 THEN 0
    ELSE folds[k - 1].metrics[name][segment] + C13_FoldSum(name, segment, k - 1)

C13_Rows(segment) == SelectSeq(tables.metrics_df, LAMBDA r : r.segment = segment)

\* C13: with aggregate_metrics = True the metrics table has exactly one row
\* per segment and no fold-index column, and each metric value of a segment's
\* row is the arithmetic mean over all folds of that segment's value in the
\* non-aggregated table, which has exactly one row per segment per fold tagged
\* with the fold index.
C13_AggregateIsMean ==
    pc = "done" =>
        /\ ~aggregate_metrics =>
              /\ Len(tables.metrics_df) = Cardinality(Segments) * n_folds
              /\ \A s \in Segments : \A f \in 0 .. n_folds - 1 :
                    \E k \in 1 .. Len(tables.metrics_df) :
                        LET row == tables.metrics_df[k]
                        IN  /\ row.segment = s
                            /\ row.fold_number = f
                            /\ \A name \in DOMAIN row.values :
                                  row.values[name] = folds[f].metrics[name][s]
        /\ aggregate_metrics =>
              /\ Len(tables.metrics_df) = Cardinality(Segments)
              /\ \A s \in Segments :
                    /\ Len(C13_Rows(s)) = 1
                    /\ "fold_number" \notin DOMAIN C13_Rows(s)[1]
                    /\ DOMAIN C13_Rows(s)[1].values = {metrics[i].name : i \in 1 .. Len(metrics)}
                    /\ \A name \in DOMAIN C13_Rows(s)[1].values :
                          LET mean == C13_Rows(s)[1].values[name]
                          IN  /\ mean.count > 0
                              /\ mean.sum * n_folds = C13_FoldSum(name, s, n_folds) * mean.count

C13_Witness ==
    /\ pc = "done"
    /\ aggregate_metrics
    /\ n_folds >= 2
    /\ \E s \in Segments : \E name \in DOMAIN folds[0].metrics :
          folds[0].metrics[name][s] # folds[1].metrics[name][s]

\* C14: for every dataset, horizon >= 1 and n_folds >= 1 that pass backtest
\* validation, including T = horizon * n_folds, every generated fold has
\* 0 <= min_train_idx <= max_train_idx < min_test_idx <= max_test_idx <= T - 1
\* in both modes: no index is negative or past the end, no train set is empty.
C14_IndicesInBounds ==
    \A i \in 1 .. Len(yielded) :
        /\ 0 <= yielded[i].min_train_idx
        /\ yielded[i].min_train_idx <= yielded[i].max_train_idx
        /\ yielded[i].max_train_idx < yielded[i].min_test_idx
        /\ yielded[i].min_test_idx <= yielded[i].max_test_idx
        /\ yielded[i].max_test_idx <= T - 1
        /\ yielded[i].train # {}

\* C15: folds are generated oldest test range first: the test window of fold
\* f+1 starts at the timestamp immediately after the end of fold f's test
\* window, test windows of different folds are pairwise disjoint, the last
\* fold's test window ends at the dataset's last timestamp, and together the
\* n_folds test windows cover exactly the last n_folds * horizon timestamps.
C15_TestWindowsTile ==
    /\ \A i \in 1 .. Len(yielded) :
          /\ yielded[i].test = yielded[i].min_test .. yielded[i].max_test
          /\ yielded[i].test # {}
          /\ i < Len(yielded) => yielded[i + 1].min_test = yielded[i].max_test + 1
          /\ \A j \in 1 .. Len(yielded) :
                i # j => yielded[i].test \cap yielded[j].test = {}
    /\ genState = "exhausted" =>
          /\ Len(yielded) = n_folds
          /\ yielded[n_folds].max_test = T - 1
          /\ UNION {yielded[i].test : i \in 1 .. n_folds}
                = {p \in 0 .. T - 1 : p >= T - n_folds * horizon}

C15_Witness ==
    /\ genState = "exhausted"
    /\ n_folds = 2
    /\ horizon = 2
    /\ T > n_folds * horizon
    /\ Len(yielded) = 2

\* the calls of one caller (a _run_fold call or backtest itself) open and
\* close experiments alternately, starting with a start_experiment
C16_Open(who, k) ==
    Cardinality({j \in 1 .. k : log[j].by = who /\ log[j].call = "start_experiment"})
    - Cardinality({j \in 1 .. k : log[j].by = who /\ log[j].call = "finish_experiment"})

\* C16: in every execution of backtest, including those in which a fold's
\* fit, forecast or metric computation raises, each start_experiment is
\* followed by a matching finish_experiment before the next start_experiment
\* in the same process and before backtest returns or propagates an error.
C16_NoExperimentLeftOpen ==
    /\ \A k \in 1 .. Len(log) : C16_Open(log[k].by, k) \in {0, 1}
    /\ n_jobs = 1 =>
          \A k \in 1 .. Len(log) :
              log[k].call = "start_experiment" =>
                  \A j \in 1 .. k - 1 : C16_Open(log[j].by, k - 1) = 0
    /\ pc \in {"done", "raised"} =>
          \A k \in 1 .. Len(log) : C16_Open(log[k].by, Len(log)) = 0

C17_Transformed == \E k \in 1 .. Len(calls) : calls[k] = "transform"

\* inplace = False: in_column is never changed, transform writes
\* in_column + value to '{in_column}_add_{value}', inverse_transform changes nothing
C17_NotInplace ==
    (pc = "transform" /\ ~inplace) =>
        /\ df[in_column] = original
        /\ ~C17_Transformed => df = [c \in {"target"} |-> original]
        /\ C17_Transformed =>
              /\ DOMAIN df = {"target", "target_add_" \o ToString(value)}
              /\ df["target_add_" \o ToString(value)]
                    = [i \in 1 .. Len(original) |-> Round(original[i] + value)]

C17_RoundTrip == pc = "transform" /\ inplace /\ calls = <<"transform", "inverse_transform">>

\* C17 (as stated): with inplace = True, inverse_transform after transform
\* restores every value of in_column to its original value for every value
\* and series; with inplace = False, transform leaves in_column unchanged and
\* writes in_column + value to '{in_column}_add_{value}', and
\* inverse_transform changes nothing.
C17_RoundTripRestores ==
    /\ C17_RoundTrip => df = [c \in {"target"} |-> original]
    /\ C17_NotInplace

\* C17 (amended): with inplace = True, inverse_transform after transform
\* restores a value of in_column to its original value whenever the float
\* addition of value to it is exact (in_column + value is representable); the
\* inplace = False part is as stated.
C17_RoundTripRestoresExactSums ==
    /\ C17_RoundTrip =>
          /\ DOMAIN df = {"target"}
          /\ Len(df["target"]) = Len(original)
          /\ \A i \in 1 .. Len(original) :
                Round(original[i] + value) = original[i] + value
                => df["target"][i] = original[i]
    /\ C17_NotInplace

C17_Witness ==
    /\ C17_RoundTrip
    /\ value # 0
    /\ Len(original) = 2
    /\ original[1] # original[2]
    /\ \A i \in 1 .. 2 : Round(original[i] + value) = original[i] + value
    /\ df["target"] = original

====
